---------------------------- MODULE Spec2Model ----------------------------
(***************************************************************************)
(* Telegram message cleaning: the text normalisation chain and the frame   *)
(* cleaning of script/data_cleaner.py, the record pipeline of              *)
(* script/data_cleaning.py (TelegramDataCleaningPipeline) and the channel  *)
(* scraper of script/telegram_scraper.py (TelegramChannelScraper).         *)
(*                                                                         *)
(* Strings are sequences of Unicode code points, so that the regular       *)
(* expressions and character tests of the source are computed on the       *)
(* characters they are written for.                                        *)
(***************************************************************************)
EXTENDS Integers, Sequences, FiniteSets, TLC

VARIABLES
    rawText,    \* the text the caller started from
    text,       \* the value held by the caller of clean_text_pipeline
    prevText,   \* the value that was passed to the latest call
    passes,     \* number of calls of clean_text_pipeline made so far
    textErr,    \* the exception a text function raised, or "none"
    ops,        \* the emoji functions called so far, in order
    emojiUsed,  \* what the latest extract_emojis returned
    rawDf,      \* the frame given to clean_dataframe
    cleanDf,    \* the frame clean_dataframe returned
    cleanPc,    \* "off", "ready", "done" or "raised"
    scraperPc,  \* position of TelegramChannelScraper.run
    chanMsgs,   \* per channel: what iter_messages will yield
    taskPc,     \* per channel: position of its scrape_channel task
    taskPos,    \* per channel: number of messages iter_messages has yielded
    csvFile,    \* the cells written to the CSV file, in order
    downloaded, \* the media downloads that have finished
    mode,       \* "run": run() drives the stages; "api": a caller invokes them
    pc,         \* position of run(), or "idle" / "done" for a caller
    coll,       \* the MongoDB collection: raw documents, or what a store left
    df,         \* the DataFrame in hand
    src,        \* the DataFrame the latest stage was given
    stage,      \* the latest stage executed
    calls,      \* number of stage calls a direct caller has made
    loaded,     \* outcome of load_raw_data: "none", "ok" or "failed"
    trace,      \* the stages run() has executed so far, in order
    err,        \* the exception that ended the run or the call, or "none"
    diag,       \* what validate_data logged
    mongo,      \* outcome of the MongoDB write of store_cleaned_data
    pg,         \* outcome of the PostgreSQL write of store_cleaned_data
    mediaStore  \* deletion attempts made against the media directory

textVars == <<rawText, text, prevText, passes, textErr, ops, emojiUsed>>
cleanVars == <<rawDf, cleanDf, cleanPc>>
scrapeVars == <<scraperPc, chanMsgs, taskPc, taskPos, csvFile, downloaded>>
otherVars == <<textVars, cleanVars, scrapeVars>>
pipeVars == <<mode, pc, coll, df, src, stage, calls, loaded, trace, err, diag,
              mongo, pg, mediaStore>>
vars == <<rawText, text, prevText, passes, textErr, ops, emojiUsed,
          rawDf, cleanDf, cleanPc,
          scraperPc, chanMsgs, taskPc, taskPos, csvFile, downloaded,
          mode, pc, coll, df, src, stage, calls, loaded, trace, err, diag,
          mongo, pg, mediaStore>>

-----------------------------------------------------------------------------
(* Bounds of the text inputs *)

MaxLen == 4        \* longest free-form input text
MaxPasses == 2     \* calls of clean_text_pipeline on one value
MaxOps == 3        \* calls of the emoji functions on one value

-----------------------------------------------------------------------------
(* Values that are not strings *)

\* nulls of a string column: Python None and float NaN
None == <<-1>>
NaN == <<-2>>
IsNull(v) == v = None \/ v = NaN

\* the int n
IntVal(n) == <<-3, n>>

\* isinstance(v, str)
IsStr(v) == IF v = <<>> THEN TRUE ELSE v[1] >= 0

\* not v: the empty string, None and 0 are falsy, NaN is not
Falsy(v) == v = <<>> \/ v = None \/ v = IntVal(0)

-----------------------------------------------------------------------------
(* Characters *)

\* str.isspace / the \s class of re on str patterns
WhiteSpace ==
    {9, 10, 11, 12, 13, 28, 29, 30, 31, 32, 133, 160, 5760} \cup (8192..8202)
        \cup {8232, 8233, 8239, 8287, 12288}

IsSpace(c) == c \in WhiteSpace

\* [ሀ-፿0-9\s] : the characters remove_non_amharic_characters keeps
IsAmharicOrDigitOrSpace(c) ==
    \/ (c >= 4608 /\ c <= 4991)
    \/ (c >= 48 /\ c <= 57)
    \/ IsSpace(c)

\* single-character keys of emoji.EMOJI_DATA that the inputs can contain:
\* grinning face, red heart, watch
EMOJI_DATA == {128512, 10084, 8986}

\* amharic_diacritics_map, in the order of the dict literal
amharic_diacritics_map ==
    << <<4736, 4608>>, <<4737, 4609>>, <<4738, 4610>>, <<4739, 4608>>, <<4740, 4612>>,
       <<4741, 4613>>, <<4742, 4614>>, <<4624, 4608>>, <<4625, 4609>>, <<4626, 4610>>,
       <<4627, 4608>>, <<4628, 4612>>, <<4629, 4613>>, <<4630, 4614>>, <<4640, 4656>>,
       <<4641, 4657>>, <<4642, 4658>>, <<4643, 4659>>, <<4644, 4660>>, <<4645, 4661>>,
       <<4646, 4662>>, <<4816, 4768>>, <<4817, 4769>>, <<4818, 4770>>, <<4819, 4768>>,
       <<4820, 4772>>, <<4821, 4773>>, <<4822, 4774>>, <<4771, 4768>> >>

-----------------------------------------------------------------------------
(* Sequence helpers *)

\* the literal lit stands in s at position i
StartsWithAt(s, i, lit) ==
    /\ i + Len(lit) - 1 <= Len(s)
    /\ \A k \in 1..Len(lit) : s[i + k - 1] = lit[k]

\* number of consecutive non-whitespace characters of s from position i on
RECURSIVE NonSpaceRun(_, _)
NonSpaceRun(s, i) ==
    IF i > Len(s) \/ IsSpace(s[i]) THEN 0 ELSE 1 + NonSpaceRun(s, i + 1)

\* str.replace(old, new) for one-character old and new
ReplaceChar(s, old, new) ==
    [i \in 1..Len(s) |-> IF s[i] = old THEN new ELSE s[i]]

-----------------------------------------------------------------------------
(* The cleaning steps of data_cleaner.py *)

\* for diacritic, base_char in diacritics_map.items(): text = text.replace(..)
RECURSIVE ReplaceAll(_, _, _)
ReplaceAll(s, map, k) ==
    IF k > Len(map) THEN s
    ELSE ReplaceAll(ReplaceChar(s, map[k][1], map[k][2]), map, k + 1)

normalize_amharic_text(s, diacritics_map) == ReplaceAll(s, diacritics_map, 1)

remove_non_amharic_characters(s) ==
    SelectSeq(s, LAMBDA c : IsAmharicOrDigitOrSpace(c))

\* the character class of the first definition of remove_emojis
InEmojiPattern(c) ==
    \/ (c >= 128512 /\ c <= 128591) \/ (c >= 127744 /\ c <= 128511)
    \/ (c >= 128640 /\ c <= 128767) \/ (c >= 128768 /\ c <= 128895)
    \/ (c >= 128896 /\ c <= 129023) \/ (c >= 129024 /\ c <= 129279)
    \/ (c >= 129280 /\ c <= 129535) \/ (c >= 129536 /\ c <= 129647)
    \/ (c >= 129648 /\ c <= 129791) \/ (c >= 9986 /\ c <= 10160)
    \/ (c >= 9410 /\ c <= 127569)

\* the first definition of remove_emojis still in force: the regex one
remove_emojis_Regex(s) == SelectSeq(s, LAMBDA c : ~InEmojiPattern(c))

\* the second definition of remove_emojis, which replaces the regex one
remove_emojis(s) == SelectSeq(s, LAMBDA c : c \notin EMOJI_DATA)

NoEmoji == <<78, 111, 32, 101, 109, 111, 106, 105>>               \* "No emoji"

extract_emojis(s) ==
    LET emojis == SelectSeq(s, LAMBDA c : c \in EMOJI_DATA)
    IN  IF emojis # <<>> THEN emojis ELSE NoEmoji

\* re.sub(r'(.)\1+', r'\1', text): "." matches every character but "\n"
RECURSIVE CollapseFrom(_, _)
CollapseFrom(s, i) ==
    IF i > Len(s) THEN <<>>
    ELSE IF i > 1 /\ s[i] = s[i - 1] /\ s[i] # 10 THEN CollapseFrom(s, i + 1)
    ELSE <<s[i]>> \o CollapseFrom(s, i + 1)

remove_repeated_characters(s) == CollapseFrom(s, 1)

\* re.sub(r'http\S+|www\S+', '', text): leftmost match, first alternative
\* first, \S+ greedy up to the next whitespace
RECURSIVE RemoveUrlsFrom(_, _)
RemoveUrlsFrom(s, i) ==
    IF i > Len(s) THEN <<>>
    ELSE IF StartsWithAt(s, i, <<104, 116, 116, 112>>) /\ NonSpaceRun(s, i + 4) >= 1
         THEN RemoveUrlsFrom(s, i + 4 + NonSpaceRun(s, i + 4))
    ELSE IF StartsWithAt(s, i, <<119, 119, 119>>) /\ NonSpaceRun(s, i + 3) >= 1
         THEN RemoveUrlsFrom(s, i + 3 + NonSpaceRun(s, i + 3))
    ELSE <<s[i]>> \o RemoveUrlsFrom(s, i + 1)

remove_urls(s) == RemoveUrlsFrom(s, 1)

\* ' '.join(text.split()).strip()
RECURSIVE SplitJoin(_, _, _)
SplitJoin(s, i, started) ==
    IF i > Len(s) THEN <<>>
    ELSE IF IsSpace(s[i]) THEN SplitJoin(s, i + 1, started)
    ELSE (IF started /\ i > 1 /\ IsSpace(s[i - 1]) THEN <<32>> ELSE <<>>)
            \o <<s[i]>> \o SplitJoin(s, i + 1, TRUE)

normalize_spaces(s) == SplitJoin(s, 1, FALSE)

\* the chain in the wrong order: script filtering after the collapsing
clean_text_pipeline_FilterLate(s) ==
    IF Falsy(s) THEN <<>>
    ELSE normalize_spaces(remove_urls(remove_non_amharic_characters(
            remove_repeated_characters(remove_emojis(
                normalize_amharic_text(s, amharic_diacritics_map))))))

\* a truthy value that is not a str passes normalize_amharic_text unchanged
\* and makes pattern.sub of remove_non_amharic_characters raise TypeError
clean_text_pipeline_raises(s) == ~Falsy(s) /\ ~IsStr(s)

\* the value returned when nothing is raised; "if not text: return ''"
clean_text_pipeline(s) ==
    IF Falsy(s) THEN <<>>
    ELSE normalize_spaces(remove_urls(remove_repeated_characters(
            remove_emojis(remove_non_amharic_characters(
                normalize_amharic_text(s, amharic_diacritics_map))))))

-----------------------------------------------------------------------------
(* Text inputs *)

\* one mapped letter and its base form, a digit, two kinds of whitespace,
\* a Latin letter that starts "www", an emoji
TextAlphabet == {4608, 4624, 49, 32, 10, 119, 128512}

SeqsUpTo(S, n) == UNION {[1..k -> S] : k \in 0..n}

\* free-form texts, and texts that hold "http" with something around it
TextInputs ==
    SeqsUpTo(TextAlphabet, MaxLen)
        \cup {p \o <<104, 116, 116, 112>> \o q :
                p \in SeqsUpTo({4608, 32}, 1), q \in SeqsUpTo(TextAlphabet, MaxLen - 1)}

\* values that are not a str: None, NaN, 0 and 5
NonTextInputs == {None, NaN, IntVal(0), IntVal(5)}

\* a Latin letter, a space, and the three emoji
EmojiAlphabet == {104, 32} \cup EMOJI_DATA

EmojiInputs == SeqsUpTo(EmojiAlphabet, MaxLen - 1)

-----------------------------------------------------------------------------
(* Values of the record pipeline (data_cleaning.py)                        *)

MaxRows == 3       \* most records in a batch
MaxCalls == 3      \* most stage calls a direct caller makes on one batch

\* NaN in a numeric id column
NaNId == -2

\* "no list": what extract_links returns when it finds nothing (None)
NoLinks == <<None>>

\* pd.Timestamp.now()
Now == <<-4>>

NoMedia == <<78, 111, 32, 77, 101, 100, 105, 97>>                 \* "No Media"
UnknownSender ==
    <<85, 110, 107, 110, 111, 119, 110, 32, 83, 101, 110, 100, 101, 114>>
                                                                    \* "Unknown Sender"
NoText == <<78, 111, 32, 84, 101, 120, 116>>                      \* "No Text"
NoneStr == <<78, 111, 110, 101>>                                  \* str(None)
NanStr == <<110, 97, 110>>                                        \* str(nan)

\* a DataFrame: its rows in order, and which optional columns it has
Frame(rows, hasLinks, hasGroup, agged) ==
    [rows |-> rows, hasLinks |-> hasLinks, hasGroup |-> hasGroup, agged |-> agged]

\* pd.DataFrame(): no rows and no columns
EmptyFrame == Frame(<<>>, FALSE, FALSE, FALSE)

Map(s, F(_)) == [i \in 1..Len(s) |-> F(s[i])]

RECURSIVE Concat(_)
Concat(ss) == IF ss = <<>> THEN <<>> ELSE Head(ss) \o Concat(Tail(ss))

-----------------------------------------------------------------------------
(* extract_links *)

\* re.findall(r'(https?://\S+|www\.\S+)', message) from position i on
RECURSIVE FindLinksFrom(_, _)
FindLinksFrom(s, i) ==
    IF i > Len(s) THEN <<>>
    ELSE IF StartsWithAt(s, i, <<104, 116, 116, 112, 115, 58, 47, 47>>)
            /\ NonSpaceRun(s, i + 8) >= 1
         THEN <<SubSeq(s, i, i + 7 + NonSpaceRun(s, i + 8))>>
                \o FindLinksFrom(s, i + 8 + NonSpaceRun(s, i + 8))
    ELSE IF StartsWithAt(s, i, <<104, 116, 116, 112, 58, 47, 47>>)
            /\ NonSpaceRun(s, i + 7) >= 1
         THEN <<SubSeq(s, i, i + 6 + NonSpaceRun(s, i + 7))>>
                \o FindLinksFrom(s, i + 7 + NonSpaceRun(s, i + 7))
    ELSE IF StartsWithAt(s, i, <<119, 119, 119, 46>>) /\ NonSpaceRun(s, i + 4) >= 1
         THEN <<SubSeq(s, i, i + 3 + NonSpaceRun(s, i + 4))>>
                \o FindLinksFrom(s, i + 4 + NonSpaceRun(s, i + 4))
    ELSE FindLinksFrom(s, i + 1)

\* links if links else None; a message that is not a str has no links
extract_links(message) ==
    LET links == IF IsNull(message) THEN <<>> ELSE FindLinksFrom(message, 1)
    IN  IF links = <<>> THEN NoLinks ELSE links

-----------------------------------------------------------------------------
(* remove_duplicates: df.drop_duplicates(subset=['message_id'], keep=..)   *)

\* keep='last': the bug of keeping the latest record of an id
drop_duplicates_KeepLast(rows) ==
    SelectSeq(rows, LAMBDA r :
        \A j \in 1..Len(rows) :
            rows[j].message_id = r.message_id => rows[j].idx <= r.idx)

\* one pass over the rows in order with the set of ids already seen; NaN ids
\* count as equal to each other, as in pandas' duplicated()
RECURSIVE DropDuplicatesFrom(_, _, _)
DropDuplicatesFrom(rows, i, seen) ==
    IF i > Len(rows) THEN <<>>
    ELSE IF rows[i].message_id \in seen THEN DropDuplicatesFrom(rows, i + 1, seen)
    ELSE <<rows[i]>> \o DropDuplicatesFrom(rows, i + 1, seen \cup {rows[i].message_id})

drop_duplicates(rows) == DropDuplicatesFrom(rows, 1, {})

-----------------------------------------------------------------------------
(* handle_missing_values *)

\* the three scalar defaults of the fillna dict
FillRow(r) ==
    [r EXCEPT !.sender_id = IF IsNull(@) THEN UnknownSender ELSE @,
              !.message_text = IF IsNull(@) THEN NoText ELSE @,
              !.media_path = IF IsNull(@) THEN NoMedia ELSE @]

fillna(rows) == Map(rows, FillRow)

\* dropna(subset=['message_id', 'message_date'])
dropna(rows) ==
    SelectSeq(rows, LAMBDA r : r.message_id # NaNId /\ ~IsNull(r.message_date))

-----------------------------------------------------------------------------
(* aggregate_group_messages *)

\* the group keys of groupby('group_id'): sorted, NaN keys left out
RECURSIVE SortedKeys(_)
SortedKeys(S) ==
    IF S = {} THEN <<>>
    ELSE LET m == CHOOSE x \in S : \A y \in S : x <= y
         IN  <<m>> \o SortedKeys(S \ {m})

GroupKeys(rows) ==
    SortedKeys({rows[i].group_id : i \in 1..Len(rows)} \ {NaNId})

GroupRows(rows, g) == SelectSeq(rows, LAMBDA r : r.group_id = g)

\* the 'first' reducer: the first value of the group that is not null
RECURSIVE FirstNonNull(_)
FirstNonNull(vals) ==
    IF vals = <<>> THEN None
    ELSE IF IsNull(Head(vals)) THEN FirstNonNull(Tail(vals))
    ELSE Head(vals)

\* [path for path in x if path and path != 'No Media']: None and '' are
\* falsy, NaN is truthy
MediaPaths(vals) ==
    SelectSeq(vals, LAMBDA p : p # None /\ p # <<>> /\ p # NoMedia)

\* sum(x, []) if isinstance(x.iloc[0], list) else []
LinksRaises(vals) ==
    /\ vals # <<>>
    /\ Head(vals) # NoLinks
    /\ \E i \in 1..Len(vals) : vals[i] = NoLinks

FlattenLinks(vals) ==
    IF vals # <<>> /\ Head(vals) # NoLinks THEN Concat(vals) ELSE <<>>

AggRow(rows, g, k) ==
    LET grp == GroupRows(rows, g)
    IN  [idx |-> k - 1,
         group_id |-> g,
         message_id |-> Map(grp, LAMBDA r : r.message_id),
         message_text |-> FirstNonNull(Map(grp, LAMBDA r : r.message_text)),
         sender_id |-> FirstNonNull(Map(grp, LAMBDA r : r.sender_id)),
         channel |-> FirstNonNull(Map(grp, LAMBDA r : r.channel)),
         message_date |-> FirstNonNull(Map(grp, LAMBDA r : r.message_date)),
         media_path |-> MediaPaths(Map(grp, LAMBDA r : r.media_path)),
         links |-> FlattenLinks(Map(grp, LAMBDA r : r.links))]

\* df['group_id'] = df['message_id'] when the column is missing
WithGroupColumn(f) ==
    IF f.hasGroup THEN f.rows
    ELSE Map(f.rows, LAMBDA r : [r EXCEPT !.group_id = r.message_id])

AggRaises(rows) ==
    \E g \in {rows[i].group_id : i \in 1..Len(rows)} \ {NaNId} :
        LinksRaises(Map(GroupRows(rows, g), LAMBDA r : r.links))

groupby_agg(rows) ==
    LET keys == GroupKeys(rows)
    IN  [k \in 1..Len(keys) |-> AggRow(rows, keys[k], k)]

-----------------------------------------------------------------------------
(* standardize_formats and validate_data *)

\* .astype(str)
AsStr(v) == IF v = None THEN NoneStr ELSE IF v = NaN THEN NanStr ELSE v

RECURSIVE LStrip(_)
LStrip(s) == IF s # <<>> /\ IsSpace(Head(s)) THEN LStrip(Tail(s)) ELSE s

RECURSIVE RStrip(_)
RStrip(s) ==
    IF s # <<>> /\ IsSpace(s[Len(s)]) THEN RStrip(SubSeq(s, 1, Len(s) - 1)) ELSE s

\* str.strip()
Strip(s) == RStrip(LStrip(s))

\* str.lower() on the ASCII letters
Lower(s) == [i \in 1..Len(s) |-> IF s[i] >= 65 /\ s[i] <= 90 THEN s[i] + 32 ELSE s[i]]

IsDigit(c) == c >= 48 /\ c <= 57

\* a date pd.to_datetime parses: YYYY-MM-DD
IsIsoDate(s) ==
    /\ Len(s) = 10
    /\ \A i \in {1, 2, 3, 4, 6, 7, 9, 10} : IsDigit(s[i])
    /\ s[5] = 45 /\ s[8] = 45

\* pd.to_datetime(.., errors='coerce').fillna(pd.Timestamp.now())
ToDatetimeOrNow(v) == IF ~IsNull(v) /\ IsIsoDate(v) THEN v ELSE Now

\* re.sub(r'\s+', '', str(path))
NoSpaces(v) == SelectSeq(AsStr(v), LAMBDA c : ~IsSpace(c))

StandardizeRow(r, agged) ==
    [r EXCEPT !.message_text = Lower(Strip(AsStr(@))),
              !.sender_id = Strip(AsStr(@)),
              !.message_date = ToDatetimeOrNow(@),
              !.media_path = IF agged THEN Map(@, NoSpaces) ELSE @]

standardize_formats(f) ==
    [f EXCEPT !.rows = Map(f.rows, LAMBDA r : StandardizeRow(r, f.agged))]

\* the two counts validate_data logs: very short texts, unknown senders
Count(rows, P(_)) == Cardinality({i \in 1..Len(rows) : P(rows[i])})

validate_data(f) ==
    [short |-> Count(f.rows, LAMBDA r : ~IsNull(r.message_text)
                                        /\ Len(r.message_text) < 2),
     unknown |-> Count(f.rows, LAMBDA r : r.sender_id = UnknownSender)]

-----------------------------------------------------------------------------
(* Batches of raw records *)

T_plain == <<32, 72, 105>>                                        \* " Hi"
T_one == <<119, 119, 119, 46, 97>>                                \* "www.a"
T_two == <<104, 116, 116, 112, 58, 47, 47, 98, 32, 119, 119, 119, 46, 99>>
                                                                    \* "http://b www.c"
A_jpg == <<97, 46, 106, 112, 103>>                                \* "a.jpg"
B_jpg == <<98, 32, 46, 106, 112, 103>>                            \* "b .jpg"
Sender1 == <<32, 115, 49, 32>>                                    \* " s1 "
Chan1 == <<99, 49>>                                               \* "c1"
Chan2 == <<99, 50>>                                               \* "c2"
Date1 == <<50, 48, 50, 52, 45, 48, 49, 45, 48, 49>>               \* "2024-01-01"
DateBad == <<120>>                                                \* "x"

\* a record with every field given; message_id 0 asks for an id of its own
Tmpl(id, gid, txt, sender, chan, date, media) ==
    [message_id |-> id, group_id |-> gid, message_text |-> txt, sender_id |-> sender,
     channel |-> chan, message_date |-> date, media_path |-> media]

\* the families of records the batches are drawn from: each varies the
\* fields one stage decides on and keeps the others at ordinary values
IdTmpls == {Tmpl(id, 7, T_plain, Sender1, Chan1, Date1, A_jpg) : id \in {1, 2, NaNId}}
GroupTmpls ==
    {Tmpl(0, gid, T_plain, Sender1, Chan1, Date1, A_jpg) : gid \in {7, 8, NaNId}}
MediaTmpls ==
    {Tmpl(0, 7, T_plain, Sender1, Chan1, Date1, m) :
        m \in {A_jpg, B_jpg, NoMedia, None, NaN, <<>>}}
    \cup {Tmpl(0, 8, T_plain, Sender1, Chan1, Date1, A_jpg)}
TextTmpls ==
    {Tmpl(0, gid, t, Sender1, Chan1, Date1, A_jpg) :
        gid \in {7, 8}, t \in {None, T_one, T_two}}
ChanTmpls ==
    {Tmpl(0, 7, T_plain, Sender1, c, Date1, A_jpg) : c \in {None, Chan1, Chan2}}
SenderDateTmpls ==
    {Tmpl(0, 7, T_plain, s, Chan1, d, A_jpg) :
        s \in {None, Sender1}, d \in {None, Date1, DateBad}}

\* the rows of a DataFrame built from the records: RangeIndex labels, no
\* links column yet
MkRows(ts) ==
    [i \in 1..Len(ts) |->
        [idx |-> i - 1,
         message_id |-> IF ts[i].message_id = 0 THEN 100 + i ELSE ts[i].message_id,
         group_id |-> ts[i].group_id,
         message_text |-> ts[i].message_text,
         sender_id |-> ts[i].sender_id,
         channel |-> ts[i].channel,
         message_date |-> ts[i].message_date,
         media_path |-> ts[i].media_path,
         links |-> NoLinks]]

FramesOf(T, hasGroup) ==
    {Frame(MkRows(ts), FALSE, hasGroup, FALSE) : ts \in SeqsUpTo(T, MaxRows)}

Batches ==
    FramesOf(IdTmpls, TRUE) \cup FramesOf(IdTmpls, FALSE)
        \cup FramesOf(GroupTmpls, TRUE) \cup FramesOf(MediaTmpls, TRUE)
        \cup FramesOf(TextTmpls, TRUE) \cup FramesOf(ChanTmpls, TRUE)
        \cup FramesOf(SenderDateTmpls, TRUE)

\* pd.DataFrame(list(collection.find())): no documents give no columns
DataFrameOf(c) == IF c.rows = <<>> THEN EmptyFrame ELSE c

-----------------------------------------------------------------------------
(* The pipeline: run() executing its stages (mode "run"), or a caller     *)
(* invoking the stage methods on a batch of its own (mode "api").         *)

Untouched == [state |-> "untouched", attempts |-> 0, writes |-> 0, ok |-> FALSE]

PipeIdle ==
    /\ mode = "off" /\ pc = "off"
    /\ coll = EmptyFrame /\ df = EmptyFrame /\ src = EmptyFrame
    /\ stage = "none" /\ calls = 0 /\ loaded = "none" /\ trace = <<>>
    /\ err = "none" /\ diag = [short |-> 0, unknown |-> 0]
    /\ mongo = Untouched /\ pg = Untouched /\ mediaStore = <<>>

TextIdle ==
    /\ rawText = <<>> /\ text = <<>> /\ prevText = <<>> /\ passes = 0
    /\ textErr = "none" /\ ops = <<>> /\ emojiUsed = <<>>

CleanIdle == rawDf = <<>> /\ cleanDf = <<>> /\ cleanPc = "off"

ScrapeIdle ==
    /\ scraperPc = "off" /\ chanMsgs = <<>> /\ taskPc = <<>> /\ taskPos = <<>>
    /\ csvFile = <<>> /\ downloaded = {}

Init ==
    /\ TextIdle /\ CleanIdle /\ ScrapeIdle
    /\ mode \in {"run", "api"}
    /\ \E b \in Batches :
        /\ coll = IF mode = "run" THEN b ELSE EmptyFrame
        /\ df = IF mode = "run" THEN EmptyFrame ELSE b
    /\ pc = IF mode = "run" THEN "load" ELSE "idle"
    /\ src = EmptyFrame
    /\ stage = "none" /\ calls = 0 /\ loaded = "none" /\ trace = <<>>
    /\ err = "none" /\ diag = [short |-> 0, unknown |-> 0]
    /\ mongo = Untouched /\ pg = Untouched /\ mediaStore = <<>>

\* the stage `name` is the next one: of run(), or of a caller that has calls left
AtStage(name) ==
    /\ err = "none"
    /\ \/ mode = "run" /\ pc = name
       \/ mode = "api" /\ pc = "idle" /\ calls < MaxCalls

\* the stage returned newDf or raised newErr; run() goes on to `next`
Returned(name, next, newDf, newErr) ==
    /\ stage' = name
    /\ src' = df
    /\ df' = newDf
    /\ err' = newErr
    /\ IF mode = "run"
       THEN /\ trace' = Append(trace, name)
            /\ pc' = IF newErr # "none" THEN "aborted" ELSE next
            /\ calls' = calls
       ELSE /\ trace' = trace
            /\ pc' = IF newErr # "none" THEN "raised"
                     ELSE IF name = "store" THEN "done" ELSE "idle"
            /\ calls' = calls + 1

\* load_raw_data: the documents found, or an empty frame when find() raised
load_raw_data(ok) == IF ok THEN DataFrameOf(coll) ELSE EmptyFrame

\* the bug of going on with an empty batch
run_after_load_NoCheck(f) == "links"

\* if df.empty: return
run_after_load(f) == IF f.rows = <<>> THEN "done" ELSE "links"

LoadRawData ==
    /\ mode = "run" /\ pc = "load"
    /\ \E ok \in BOOLEAN :
        /\ loaded' = IF ok THEN "ok" ELSE "failed"
        /\ Returned("load", run_after_load(load_raw_data(ok)),
                    load_raw_data(ok), "none")
    /\ UNCHANGED <<otherVars, mode, coll, diag, mongo, pg, mediaStore>>

\* df['links'] = df['message_text'].apply(self.extract_links)
ExtractLinks ==
    /\ AtStage("links") /\ ~df.agged
    /\ Returned("links", "dedup",
                [df EXCEPT !.hasLinks = TRUE,
                           !.rows = Map(df.rows, LAMBDA r :
                                [r EXCEPT !.links = extract_links(r.message_text)])],
                "none")
    /\ UNCHANGED <<otherVars, mode, coll, loaded, diag, mongo, pg, mediaStore>>

remove_duplicates(f) == [f EXCEPT !.rows = drop_duplicates(f.rows)]

RemoveDuplicates ==
    /\ AtStage("dedup") /\ ~df.agged
    /\ Returned("dedup", "fill", remove_duplicates(df), "none")
    /\ UNCHANGED <<otherVars, mode, coll, loaded, diag, mongo, pg, mediaStore>>

\* Series.fillna([]) raises TypeError ('"value" parameter must be a scalar
\* or dict, but you passed a "list"'), so the fillna dict raises at its
\* 'links' entry whenever the frame has a links column; the three entries
\* before it may have been applied in place by then
handle_missing_values_raises(f) == f.hasLinks

handle_missing_values(f) == [f EXCEPT !.rows = dropna(fillna(f.rows))]

HandleMissingValues ==
    /\ AtStage("fill") /\ ~df.agged
    /\ IF handle_missing_values_raises(df)
       THEN \E filled \in BOOLEAN :
                Returned("fill", "agg",
                         IF filled THEN [df EXCEPT !.rows = fillna(df.rows)] ELSE df,
                         "TypeError")
       ELSE Returned("fill", "agg", handle_missing_values(df), "none")
    /\ UNCHANGED <<otherVars, mode, coll, loaded, diag, mongo, pg, mediaStore>>

\* groupby(..).agg(..) raises KeyError for a column the frame lacks, and
\* sum(x, []) raises TypeError on a None among the lists
aggregate_raises(f) ==
    IF ~f.hasLinks THEN "KeyError"
    ELSE IF AggRaises(WithGroupColumn(f)) THEN "TypeError"
    ELSE "none"

aggregate_group_messages(f) ==
    IF aggregate_raises(f) # "none"
    THEN [f EXCEPT !.rows = WithGroupColumn(f), !.hasGroup = TRUE]
    ELSE Frame(groupby_agg(WithGroupColumn(f)), TRUE, TRUE, TRUE)

AggregateGroupMessages ==
    /\ AtStage("agg") /\ ~df.agged
    /\ Returned("agg", "std", aggregate_group_messages(df), aggregate_raises(df))
    /\ UNCHANGED <<otherVars, mode, coll, loaded, diag, mongo, pg, mediaStore>>

StandardizeFormats ==
    /\ AtStage("std")
    /\ Returned("std", "validate", standardize_formats(df), "none")
    /\ UNCHANGED <<otherVars, mode, coll, loaded, diag, mongo, pg, mediaStore>>

ValidateData ==
    /\ AtStage("validate")
    /\ diag' = validate_data(df)
    /\ Returned("validate", "store", df, "none")
    /\ UNCHANGED <<otherVars, mode, coll, loaded, mongo, pg, mediaStore>>

\* first try block: drop(), then insert_many(records), which raises on an
\* empty list of records; an exception in either is logged
store_mongo(f, dropOk, insertOk) ==
    [state |-> IF ~dropOk THEN "drop_failed"
               ELSE IF insertOk /\ f.rows # <<>> THEN "written" ELSE "dropped",
     attempts |-> mongo.attempts + 1,
     writes |-> mongo.writes + (IF dropOk /\ insertOk /\ f.rows # <<>> THEN 1 ELSE 0),
     ok |-> dropOk /\ insertOk /\ f.rows # <<>>]

\* the bug of one try block around both stores: an exception of the
\* MongoDB write skips the PostgreSQL write
store_pg_OneTry(f, mongoOk, sqlOk) ==
    IF mongoOk
    THEN [state |-> IF sqlOk THEN "written" ELSE "failed",
          attempts |-> pg.attempts + 1,
          writes |-> pg.writes + (IF sqlOk THEN 1 ELSE 0),
          ok |-> sqlOk]
    ELSE pg

\* second try block: to_sql(.., if_exists='replace'), whatever the first
\* block did; an exception is logged
store_pg(f, mongoOk, sqlOk) ==
    [state |-> IF sqlOk THEN "written" ELSE "failed",
     attempts |-> pg.attempts + 1,
     writes |-> pg.writes + (IF sqlOk THEN 1 ELSE 0),
     ok |-> sqlOk]

StoreCleanedData ==
    /\ AtStage("store")
    /\ \E dropOk, insertOk, sqlOk \in BOOLEAN :
        /\ mongo' = store_mongo(df, dropOk, insertOk)
        /\ pg' = store_pg(df, store_mongo(df, dropOk, insertOk).ok, sqlOk)
    /\ Returned("store", "done", df, "none")
    /\ UNCHANGED <<otherVars, mode, coll, loaded, diag, mediaStore>>

Next ==
    \/ LoadRawData
    \/ ExtractLinks
    \/ RemoveDuplicates
    \/ HandleMissingValues
    \/ AggregateGroupMessages
    \/ StandardizeFormats
    \/ ValidateData
    \/ StoreCleanedData

Spec == Init /\ [][Next]_vars

-----------------------------------------------------------------------------
(* Specification of the text functions: a caller cleans a text, and       *)
(* cleans the result again.                                                *)

InitText ==
    /\ rawText \in TextInputs \cup NonTextInputs \cup EmojiInputs
    /\ text = rawText
    /\ prevText = rawText
    /\ passes = 0
    /\ textErr = "none" /\ ops = <<>> /\ emojiUsed = <<>>
    /\ PipeIdle /\ CleanIdle /\ ScrapeIdle

\* text = clean_text_pipeline(text), the exception reaching the caller
CleanTextPipeline ==
    /\ passes < MaxPasses
    /\ textErr = "none" /\ ops = <<>>
    /\ prevText' = text
    /\ passes' = passes + 1
    /\ IF clean_text_pipeline_raises(text)
         THEN text' = text /\ textErr' = "TypeError"
         ELSE text' = clean_text_pipeline(text) /\ textErr' = "none"
    /\ UNCHANGED <<rawText, ops, emojiUsed, pipeVars, cleanVars, scrapeVars>>

\* emoji_used = extract_emojis(text)
ExtractEmojis ==
    /\ passes = 0 /\ IsStr(text)
    /\ Len(ops) < MaxOps
    /\ emojiUsed' = extract_emojis(text)
    /\ ops' = Append(ops, "extract")
    /\ UNCHANGED <<rawText, text, prevText, passes, textErr,
                   pipeVars, cleanVars, scrapeVars>>

\* text = remove_emojis(text)
RemoveEmojis ==
    /\ passes = 0 /\ IsStr(text)
    /\ Len(ops) < MaxOps
    /\ prevText' = text
    /\ text' = remove_emojis(text)
    /\ ops' = Append(ops, "remove")
    /\ UNCHANGED <<rawText, passes, textErr, emojiUsed,
                   pipeVars, cleanVars, scrapeVars>>

NextText == CleanTextPipeline \/ ExtractEmojis \/ RemoveEmojis

SpecText == InitText /\ [][NextText]_vars

-----------------------------------------------------------------------------
(* clean_dataframe (data_cleaner.py): the frame read from the scraper's    *)
(* CSV file, its cells being strings or NaN.                               *)

NoMessage == <<78, 111, 32, 77, 101, 115, 115, 97, 103, 101>>                  \* "No Message"
NoYouTubeLink == <<78, 111, 32, 89, 111, 117, 84, 117, 98, 101, 32, 108, 105, 110, 107>>
                                                                    \* "No YouTube link"

\* df.drop_duplicates(subset=["ID"]): on the cells as they were read
RECURSIVE DropDuplicateIDsFrom(_, _, _)
DropDuplicateIDsFrom(rows, i, seen) ==
    IF i > Len(rows) THEN <<>>
    ELSE IF rows[i].ID \in seen THEN DropDuplicateIDsFrom(rows, i + 1, seen)
    ELSE <<rows[i]>> \o DropDuplicateIDsFrom(rows, i + 1, seen \cup {rows[i].ID})

\* the number a string of decimal digits stands for
RECURSIVE DigitsValue(_)
DigitsValue(s) ==
    IF s = <<>> THEN 0
    ELSE 10 * DigitsValue(SubSeq(s, 1, Len(s) - 1)) + (s[Len(s)] - 48)

\* pd.to_numeric(.., errors="coerce"): NaN for what is not a number
to_numeric(v) ==
    IF IsNull(v) THEN NaNId
    ELSE IF ~IsStr(v) THEN v[2]
    ELSE IF v # <<>> /\ (\A i \in 1..Len(v) : IsDigit(v[i])) THEN DigitsValue(v)
    ELSE NaNId

\* pd.to_numeric(df['ID'], errors="coerce").fillna(0).astype(int)
ToIntId(v) == IF to_numeric(v) = NaNId THEN 0 ELSE to_numeric(v)

\* pd.to_datetime(.., errors='coerce'), then NaT replaced by None
ToDatetimeOrNone(v) == IF ~IsNull(v) /\ IsIsoDate(v) THEN v ELSE None

\* re.sub(r'\n+', ' ', text)
RECURSIVE NewlinesToSpaceFrom(_, _)
NewlinesToSpaceFrom(s, i) ==
    IF i > Len(s) THEN <<>>
    ELSE IF s[i] = 10 THEN
            (IF i > 1 /\ s[i - 1] = 10 THEN <<>> ELSE <<32>>)
                \o NewlinesToSpaceFrom(s, i + 1)
    ELSE <<s[i]>> \o NewlinesToSpaceFrom(s, i + 1)

clean_text(v) == IF IsNull(v) THEN NoMessage ELSE Strip(NewlinesToSpaceFrom(v, 1))

\* what https?://(?:www\.)?(?:youtube\.com|youtu\.be)/ can match
YoutubePrefixes ==
    {scheme \o www \o host \o <<47>> :
        scheme \in {<<104, 116, 116, 112, 115, 58, 47, 47>>, <<104, 116, 116, 112, 58, 47, 47>>},
        www \in {<<>>, <<119, 119, 119, 46>>},
        host \in {<<121, 111, 117, 116, 117, 98, 101, 46, 99, 111, 109>>,
                  <<121, 111, 117, 116, 117, 46, 98, 101>>}}

\* the pattern matches at position i: a prefix, then [^\s]+
YoutubeAt(s, i) ==
    \E p \in YoutubePrefixes : StartsWithAt(s, i, p) /\ NonSpaceRun(s, i + Len(p)) >= 1

\* re.findall(youtube_pattern, text) from position i on
RECURSIVE FindYoutubeFrom(_, _)
FindYoutubeFrom(s, i) ==
    IF i > Len(s) THEN <<>>
    ELSE IF YoutubeAt(s, i)
         THEN <<SubSeq(s, i, i + NonSpaceRun(s, i) - 1)>>
                \o FindYoutubeFrom(s, i + NonSpaceRun(s, i))
    ELSE FindYoutubeFrom(s, i + 1)

\* ', '.join(links)
RECURSIVE JoinComma(_)
JoinComma(links) ==
    IF Len(links) = 1 THEN Head(links)
    ELSE Head(links) \o <<44, 32>> \o JoinComma(Tail(links))

extract_youtube_links(s) ==
    LET links == FindYoutubeFrom(s, 1)
    IN  IF links # <<>> THEN JoinComma(links) ELSE NoYouTubeLink

\* re.sub(youtube_pattern, '', text) from position i on
RECURSIVE RemoveYoutubeFrom(_, _)
RemoveYoutubeFrom(s, i) ==
    IF i > Len(s) THEN <<>>
    ELSE IF YoutubeAt(s, i) THEN RemoveYoutubeFrom(s, i + NonSpaceRun(s, i))
    ELSE <<s[i]>> \o RemoveYoutubeFrom(s, i + 1)

remove_youtube_links(s) == Strip(RemoveYoutubeFrom(s, 1))

\* Series.str.strip(): NaN stays NaN
StrStrip(v) == IF IsNull(v) THEN NaN ELSE Strip(v)

\* the column steps of lines 173-216 on one record
CleanRow(r) ==
    LET msg == clean_text(IF IsNull(r.Message) THEN NoMessage ELSE r.Message)
    IN  [idx |-> r.idx,
         message_id |-> ToIntId(r.ID),
         message_date |-> ToDatetimeOrNone(r.Date),
         message |-> remove_youtube_links(remove_emojis(msg)),
         media_path |-> StrStrip(IF IsNull(r.MediaPath) THEN NoMedia ELSE r.MediaPath),
         channel_title |-> StrStrip(r.ChannelTitle),
         channel_username |-> StrStrip(r.ChannelUsername),
         emoji_used |-> extract_emojis(msg),
         youtube_links |-> extract_youtube_links(remove_emojis(msg))]

\* .str on a column without a single string (all NaN: dtype float64) raises
\* AttributeError
StrAccessorRaises(vals) == vals # <<>> /\ \A i \in 1..Len(vals) : IsNull(vals[i])

clean_dataframe_raises(rows) ==
    LET kept == DropDuplicateIDsFrom(rows, 1, {})
    IN  \/ StrAccessorRaises([i \in 1..Len(kept) |-> kept[i].ChannelTitle])
        \/ StrAccessorRaises([i \in 1..Len(kept) |-> kept[i].ChannelUsername])

\* the frame returned when nothing is raised
clean_dataframe(rows) ==
    LET kept == DropDuplicateIDsFrom(rows, 1, {})
    IN  [i \in 1..Len(kept) |-> CleanRow(kept[i])]

-----------------------------------------------------------------------------
(* Frames given to clean_dataframe *)

Id_1 == <<49>>                                                    \* "1"
Id_01 == <<48, 49>>                                               \* "01"
Id_2 == <<50>>                                                    \* "2"
Id_ab == <<97, 98>>                                               \* "ab"
M_plain == <<104, 105>>                                        \* "hi"
\* "h", two newlines, grinning face, " ", red heart
M_emoji == <<104, 10, 10, 128512, 32, 10084>>
\* "a https://youtu.be/x " and a newline
M_youtube == <<97, 32, 104, 116, 116, 112, 115, 58, 47, 47, 121, 111, 117, 116, 117, 46, 98, 101, 47, 120, 32, 10>>
Title1 == <<32, 99, 49, 32>>                                       \* " c1 "
User1 == <<64, 99, 49>>                                         \* "@c1"
Media1 == <<32, 97, 46, 106, 112, 103>>                                  \* " a.jpg"

\* a CSV record; ID <<>> asks for an id of its own
CleanTmpl(id, date, msg, media, title) ==
    [ID |-> id, Date |-> date, Message |-> msg, MediaPath |-> media,
     ChannelTitle |-> title, ChannelUsername |-> User1]

\* the families of records the frames are drawn from: each varies the
\* cells one step decides on and keeps the others at ordinary values
CleanIdTmpls ==
    {CleanTmpl(id, Date1, M_plain, Media1, Title1) :
        id \in {Id_1, Id_01, Id_2, Id_ab, NaN}}

CleanDateTmpls ==
    {CleanTmpl(<<>>, date, M_plain, Media1, Title1) : date \in {Date1, DateBad, NaN}}

CleanMessageTmpls ==
    {CleanTmpl(<<>>, Date1, msg, Media1, Title1) : msg \in {NaN, M_emoji, M_youtube}}

CleanTitleTmpls ==
    {CleanTmpl(<<>>, Date1, M_plain, media, title) :
        media \in {NaN, Media1}, title \in {NaN, Title1}}

MkCleanRows(ts) ==
    [i \in 1..Len(ts) |->
        [idx |-> i - 1,
         ID |-> IF ts[i].ID = <<>> THEN <<48 + i>> ELSE ts[i].ID,
         Date |-> ts[i].Date,
         Message |-> ts[i].Message,
         MediaPath |-> ts[i].MediaPath,
         ChannelTitle |-> ts[i].ChannelTitle,
         ChannelUsername |-> ts[i].ChannelUsername]]

CleanFramesOf(T) == {MkCleanRows(ts) : ts \in SeqsUpTo(T, MaxRows)}

CleanBatches ==
    CleanFramesOf(CleanIdTmpls) \cup CleanFramesOf(CleanDateTmpls)
        \cup CleanFramesOf(CleanMessageTmpls) \cup CleanFramesOf(CleanTitleTmpls)

-----------------------------------------------------------------------------
(* Specification of clean_dataframe: a caller cleans a frame.              *)

InitClean ==
    /\ rawDf \in CleanBatches
    /\ cleanDf = <<>>
    /\ cleanPc = "ready"
    /\ TextIdle /\ PipeIdle /\ ScrapeIdle

\* df = clean_dataframe(df); the except clause logs and raises again
CleanDataframe ==
    /\ cleanPc = "ready"
    /\ IF clean_dataframe_raises(rawDf)
         THEN cleanDf' = <<>> /\ cleanPc' = "raised"
         ELSE cleanDf' = clean_dataframe(rawDf) /\ cleanPc' = "done"
    /\ UNCHANGED <<rawDf, textVars, pipeVars, scrapeVars>>

NextClean == CleanDataframe

SpecClean == InitClean /\ [][NextClean]_vars

-----------------------------------------------------------------------------
(* The scraper (telegram_scraper.py): run() writes the header and gathers  *)
(* one scrape_channel task per channel on one event loop. A task gives up  *)
(* the loop only at an await; between two awaits it runs alone.            *)

MaxMsgs == 2       \* most messages a channel yields

\* self.channels
Channels == {"@a", "@b"}

\* the header row of the CSV file
Header == <<"channel_title", "channel_username", "channel_id", "message_id",
            "message", "date", "media_path">>

HeaderRow ==
    [i \in 1..Len(Header) |-> [chan |-> "", msg |-> 0, col |-> Header[i], media |-> ""]]

\* the row of message k of channel c: one cell per column
Row(c, k, path) ==
    [i \in 1..Len(Header) |-> [chan |-> c, msg |-> k, col |-> Header[i], media |-> path]]

\* csv.writer.writerow: the whole line in one synchronous call
writerow(file, row) == file \o row

\* message.media and hasattr(message.media, 'photo')
has_photo(m) == m.photo

\* what scrape_channel does with a yielded message before it next gives up
\* the loop: the row goes out at once and the task returns to the
\* iteration without waiting for the download
after_yield_NoAwait(m) == [pc |-> "iter", write |-> TRUE]

\* what scrape_channel does with a yielded message before it next gives up
\* the loop: download_media awaits client.download_media for a photo, and
\* returns None at once otherwise, so that the row is written in the same
\* step
after_yield(m) ==
    IF has_photo(m) THEN [pc |-> "download", write |-> FALSE]
    ELSE [pc |-> "iter", write |-> TRUE]

\* what iter_messages yields for a channel: messages with or without a photo
MessageLists ==
    UNION {[1..n -> [photo : BOOLEAN]] : n \in 0..MaxMsgs}

InitScraper ==
    /\ scraperPc = "start"
    /\ chanMsgs \in [Channels -> MessageLists]
    /\ taskPc = [c \in Channels |-> "none"]
    /\ taskPos = [c \in Channels |-> 0]
    /\ csvFile = <<>>
    /\ downloaded = {}
    /\ TextIdle /\ PipeIdle /\ CleanIdle

\* run(): the client connects, the file is opened, the header is written,
\* the tasks are created and gathered
ScraperRun ==
    /\ scraperPc = "start"
    /\ \E connected \in BOOLEAN :
        IF connected
        THEN /\ csvFile' = writerow(csvFile, HeaderRow)
             /\ taskPc' = [c \in Channels |-> "entity"]
             /\ scraperPc' = "gather"
        ELSE /\ scraperPc' = "raised"
             /\ UNCHANGED <<csvFile, taskPc>>
    /\ UNCHANGED <<chanMsgs, taskPos, downloaded, textVars, pipeVars, cleanVars>>

\* entity = await client.get_entity(channel_username)
GetEntity(c) ==
    /\ scraperPc = "gather" /\ taskPc[c] = "entity"
    /\ \E ok \in BOOLEAN :
        taskPc' = [taskPc EXCEPT ![c] = IF ok THEN "iter" ELSE "failed"]
    /\ UNCHANGED <<scraperPc, chanMsgs, taskPos, csvFile, downloaded,
                   textVars, pipeVars, cleanVars>>

\* async for message in client.iter_messages(..): the next message arrives,
\* the iteration ends, or the request fails
NextMessage(c) ==
    /\ scraperPc = "gather" /\ taskPc[c] = "iter"
    /\ \E ok \in BOOLEAN :
        IF ~ok
        THEN /\ taskPc' = [taskPc EXCEPT ![c] = "failed"]
             /\ UNCHANGED <<taskPos, csvFile>>
        ELSE IF taskPos[c] = Len(chanMsgs[c])
        THEN /\ taskPc' = [taskPc EXCEPT ![c] = "done"]
             /\ UNCHANGED <<taskPos, csvFile>>
        ELSE LET k == taskPos[c] + 1
                 todo == after_yield(chanMsgs[c][k])
             IN  /\ taskPos' = [taskPos EXCEPT ![c] = k]
                 /\ taskPc' = [taskPc EXCEPT ![c] = todo.pc]
                 /\ csvFile' = IF todo.write
                               THEN writerow(csvFile, Row(c, k, "None"))
                               ELSE csvFile
    /\ UNCHANGED <<scraperPc, chanMsgs, downloaded, textVars, pipeVars, cleanVars>>

\* await client.download_media(..) returns and the row is written, or it
\* raises and scrape_channel logs the error and ends
DownloadMedia(c) ==
    /\ scraperPc = "gather" /\ taskPc[c] = "download"
    /\ \E ok \in BOOLEAN :
        IF ok
        THEN /\ downloaded' = downloaded \cup {<<c, taskPos[c]>>}
             /\ csvFile' = writerow(csvFile, Row(c, taskPos[c], "path"))
             /\ taskPc' = [taskPc EXCEPT ![c] = "iter"]
        ELSE /\ taskPc' = [taskPc EXCEPT ![c] = "failed"]
             /\ UNCHANGED <<downloaded, csvFile>>
    /\ UNCHANGED <<scraperPc, chanMsgs, taskPos, textVars, pipeVars, cleanVars>>

\* asyncio.gather returns when every task has ended; the file is closed
GatherDone ==
    /\ scraperPc = "gather"
    /\ \A c \in Channels : taskPc[c] \in {"done", "failed"}
    /\ scraperPc' = "closed"
    /\ UNCHANGED <<chanMsgs, taskPc, taskPos, csvFile, downloaded,
                   textVars, pipeVars, cleanVars>>

NextScraper ==
    \/ ScraperRun
    \/ \E c \in Channels : GetEntity(c)
    \/ \E c \in Channels : NextMessage(c)
    \/ \E c \in Channels : DownloadMedia(c)
    \/ GatherDone

SpecScraper == InitScraper /\ [][NextScraper]_vars

-----------------------------------------------------------------------------
(* Properties *)

\* C1: normalisation is idempotent: cleaning an already cleaned text returns
\* it unchanged.
C1_Idempotent == passes >= 2 => text = prevText

\* a text that the first pass changed has been cleaned twice
C1_Witness ==
    /\ passes = 2
    /\ Len(text) >= 2
    /\ text # rawText
    /\ text = prevText

\* C2: duplicate removal keeps, of the records of each message_id, exactly
\* the first one in batch order, and leaves the kept records in their order.
C2_KeepsFirst ==
    stage = "dedup" =>
        LET in == src.rows
            out == df.rows
        IN  /\ \A i \in 1..Len(in) :
                (\E k \in 1..Len(out) : out[k] = in[i])
                    <=> (\A j \in 1..(i - 1) : in[j].message_id # in[i].message_id)
            /\ \A k \in 1..Len(out) : \E i \in 1..Len(in) : out[k] = in[i]
            /\ \A k, l \in 1..Len(out) : k < l => out[k].idx < out[l].idx

\* a batch of three records lost a duplicate and kept two records
C2_Witness ==
    /\ stage = "dedup"
    /\ Len(src.rows) = 3
    /\ Len(df.rows) = 2

\* C3: duplicate removal makes one deletion attempt against the media store
\* for each removed duplicate: k - d attempts for k records with d distinct ids.
C3_DeletionAttempts ==
    (stage = "dedup" /\ \A i \in 1..Len(src.rows) : src.rows[i].message_id # NaNId) =>
        Len(mediaStore) =
            Len(src.rows) - Cardinality({src.rows[i].message_id : i \in 1..Len(src.rows)})

\* the group a record belongs to as the claims have it: its group_id, or a
\* group of its own, keyed by its message_id, when it has none
ClaimKey(f, r) ==
    IF ~f.hasGroup \/ r.group_id = NaNId THEN <<0, r.message_id>> ELSE <<1, r.group_id>>

ClaimGroup(f, r) == SelectSeq(f.rows, LAMBDA q : ClaimKey(f, q) = ClaimKey(f, r))

\* the records aggregated into the output record k
Members(k) == GroupRows(WithGroupColumn(src), df.rows[k].group_id)

Aggregated == stage = "agg" /\ err = "none"

\* C4: aggregation emits one record per group, and every input record's
\* message_id is in the message_id list of exactly one output record, the
\* list being in batch order (stated for records that have a message_id).
C4_OneRecordPerGroup ==
    (Aggregated /\ \A i \in 1..Len(src.rows) : src.rows[i].message_id # NaNId) =>
        /\ Len(df.rows) = Cardinality({ClaimKey(src, src.rows[i]) : i \in 1..Len(src.rows)})
        /\ \A i \in 1..Len(src.rows) :
            /\ Cardinality({k \in 1..Len(df.rows) :
                    \E m \in 1..Len(df.rows[k].message_id) :
                        df.rows[k].message_id[m] = src.rows[i].message_id}) = 1
            /\ \E k \in 1..Len(df.rows) :
                    df.rows[k].message_id
                        = Map(ClaimGroup(src, src.rows[i]), LAMBDA r : r.message_id)

\* C5: the aggregated media_path is the members' media paths in batch order
\* without the nulls and the "No Media" entries, nothing else removed
\* (stated for batches without empty-string paths).
C5_MediaPaths ==
    (Aggregated /\ \A i \in 1..Len(src.rows) : src.rows[i].media_path # <<>>) =>
        \A k \in 1..Len(df.rows) :
            df.rows[k].media_path
                = SelectSeq(Map(Members(k), LAMBDA r : r.media_path),
                            LAMBDA p : ~IsNull(p) /\ p # NoMedia)

\* C6: the aggregated links are the concatenation, in batch order, of the
\* members' link lists, a record without links contributing nothing.
C6_LinksConcatenated ==
    Aggregated =>
        \A k \in 1..Len(df.rows) :
            df.rows[k].links
                = Concat(Map(Members(k),
                             LAMBDA r : IF r.links = NoLinks THEN <<>> ELSE r.links))

\* the batch is as handle_missing_values leaves one
Filled(f) == dropna(fillna(f.rows)) = f.rows

\* C7: after missing-value filling, the aggregated message_text, sender_id,
\* channel and message_date are those of the first record of the group.
C7_FirstRecordValues ==
    (Aggregated /\ Filled(src)) =>
        \A k \in 1..Len(df.rows) :
            LET first == Members(k)[1]
            IN  /\ df.rows[k].message_text = first.message_text
                /\ df.rows[k].sender_id = first.sender_id
                /\ df.rows[k].channel = first.channel
                /\ df.rows[k].message_date = first.message_date

Stages == <<"load", "links", "dedup", "fill", "agg", "std", "validate", "store">>

RunEnded == mode = "run" /\ pc \in {"done", "aborted"}

\* C8: a run on a non-empty batch executes the eight stages, each once, in
\* order.
C8_AllStagesInOrder ==
    (RunEnded /\ loaded = "ok" /\ coll.rows # <<>>) => trace = Stages

C10_IndependentWrites ==
    stage = "store" =>
        /\ err = "none"
        /\ mongo.attempts = 1
        /\ pg.attempts = 1
        /\ mongo.writes <= 1
        /\ pg.writes <= 1
        /\ mongo.ok => mongo.state = "written"
        /\ pg.ok <=> pg.state = "written"

\* the MongoDB write failed and the PostgreSQL write was made
C10_Witness ==
    /\ stage = "store"
    /\ mongo.state = "drop_failed"
    /\ pg.state = "written"
    /\ df.rows # <<>>

\* C11: normalisation is total: clean_text_pipeline never raises, returns
\* the empty string for the empty string, and returns a value that is not a
\* string unchanged.
C11_Total ==
    passes = 1 =>
        /\ textErr = "none"
        /\ (rawText = <<>> => text = <<>>)
        /\ (~IsStr(rawText) => text = rawText)

\* out is t restricted to its positions K, in order
Picks(out, t, K) ==
    /\ Len(out) = Cardinality(K)
    /\ \A i \in K : out[Cardinality({j \in K : j <= i})] = t[i]

EmojiPositions(t) == {i \in 1..Len(t) : t[i] \in EMOJI_DATA}

\* C14: extract_emojis returns the emoji characters of the text in order,
\* or "No emoji" when there is none; remove_emojis deletes exactly those
\* characters and keeps every other character in place; extract_emojis of
\* what remove_emojis returned is "No emoji".
C14_EmojiLaw ==
    LET n == Len(ops)
    IN  /\ (n >= 1 /\ ops[n] = "extract") =>
                IF EmojiPositions(text) = {} THEN emojiUsed = NoEmoji
                ELSE Picks(emojiUsed, text, EmojiPositions(text))
        /\ (n >= 1 /\ ops[n] = "remove") =>
                Picks(text, prevText,
                      (1..Len(prevText)) \ EmojiPositions(prevText))
        /\ (n >= 2 /\ ops[n] = "extract" /\ ops[n - 1] = "remove") =>
                emojiUsed = NoEmoji

\* a text with emoji and other characters was extracted from, stripped, and
\* extracted from again
C14_Witness ==
    /\ ops = <<"extract", "remove", "extract">>
    /\ Cardinality(EmojiPositions(rawText)) >= 2
    /\ Len(text) >= 1 /\ Len(text) < Len(rawText)
    /\ emojiUsed = NoEmoji

\* C12: message_id is unique in the frame clean_dataframe returns, whatever
\* the ID cells of the input were (missing, not numeric).
C12_UniqueMessageId ==
    cleanPc = "done" =>
        \A i, j \in 1..Len(cleanDf) :
            i # j => cleanDf[i].message_id # cleanDf[j].message_id

\* C13: message_date is never null in the frame clean_dataframe returns: a
\* missing or unparseable date has been replaced by a default.
C13_DateNeverNull ==
    cleanPc = "done" =>
        \A i \in 1..Len(cleanDf) : ~IsNull(cleanDf[i].message_date)

\* the rows of the file: its cells taken Len(Header) at a time
RowCount == Len(csvFile) \div Len(Header)
CellOf(r, i) == csvFile[(r - 1) * Len(Header) + i]

\* C15: one task per channel; under every interleaving the header row is
\* written once and before any data row, every row is written whole (its
\* cells are never mixed with those of another task's row), and the row of
\* a message with media is written only after its download has finished.
C15_SingleWriter ==
    scraperPc \in {"gather", "closed"} =>
        /\ \A c \in Channels : taskPc[c] # "none"
        /\ Len(csvFile) = RowCount * Len(Header)
        /\ RowCount >= 1
        /\ \A r \in 1..RowCount : \A i \in 1..Len(Header) :
            /\ CellOf(r, i).col = Header[i]
            /\ CellOf(r, i).chan = CellOf(r, 1).chan
            /\ CellOf(r, i).msg = CellOf(r, 1).msg
            /\ CellOf(r, i).media = CellOf(r, 1).media
            /\ (CellOf(r, i).chan = "") = (r = 1)
        /\ \A r \in 2..RowCount :
            LET c == CellOf(r, 1).chan
                k == CellOf(r, 1).msg
            IN  /\ c \in Channels /\ k \in 1..taskPos[c]
                /\ has_photo(chanMsgs[c][k]) => <<c, k>> \in downloaded
                /\ \A q \in 2..RowCount :
                    (CellOf(q, 1).chan = c /\ CellOf(q, 1).msg = k) => q = r

\* both tasks wrote rows, one of them between two rows of the other, and a
\* row of a message with a photo is in the file
C15_Witness ==
    /\ scraperPc = "closed"
    /\ \A c \in Channels : taskPc[c] = "done"
    /\ RowCount = 4
    /\ CellOf(2, 1).chan = "@a" /\ CellOf(3, 1).chan = "@b" /\ CellOf(4, 1).chan = "@a"
    /\ CellOf(3, 1).media = "path"
    /\ has_photo(chanMsgs["@a"][1])

\* C16: in a run, duplicate removal followed by handle_missing_values never
\* aborts the run, and leaves exactly records that are the first of their
\* message_id in the loaded batch with message_id and message_date not null:
\* an id whose first record has a null date is absent from the result.
C16_FirstOccurrenceSurvives ==
    (mode = "run" /\ stage = "fill") =>
        /\ err = "none"
        /\ \A i \in 1..Len(df.rows) :
            LET r == df.rows[i]
            IN  /\ r.message_id # NaNId
                /\ ~IsNull(r.message_date)
                /\ \A j \in 1..Len(coll.rows) :
                    coll.rows[j].message_id = r.message_id
                        => coll.rows[j].idx >= r.idx
        /\ \A j \in 1..Len(coll.rows) :
            LET first == coll.rows[j]
            IN  ( /\ IsNull(first.message_date)
                  /\ \A q \in 1..Len(coll.rows) :
                        coll.rows[q].message_id = first.message_id
                            => coll.rows[q].idx >= first.idx )
                    => \A i \in 1..Len(df.rows) :
                            df.rows[i].message_id # first.message_id

=============================================================================
